---- MODULE Spec2Model ----
(***************************************************************************)
(* Model of the ai-collab-mcp coordination core: the task store            *)
(* (TaskQueue), the mission store (MissionManager), the project plans      *)
(* (ProjectPlanManager), the per-agent loop states (LoopStateManager), the *)
(* mission work cycles (AutonomousEngine) and the tool handlers of the MCP *)
(* server that drive them.                                                 *)
(***************************************************************************)
EXTENDS Integers, Sequences, FiniteSets, TLC

VARIABLES
    tasks,      \* tasks.json: task id -> task record
    order,      \* key order of tasks.json (insertion order of the ids)
    missions,   \* missions.json: mission id -> mission record
    loops,      \* loop-states.json: agent name -> loop state
    plans,      \* project-plans.json: plan id -> plan record
    inflight,   \* calls that have loaded a store file and not yet saved it
    workflows,  \* AutonomousEngine.activeWorkflows: mission id -> workflow
    unparseable,\* the store files whose content is not valid JSON
    now,        \* the millisecond clock (Date.now())
    lastOp      \* the last operation run and what it returned

vars == <<tasks, order, missions, loops, plans, inflight, workflows,
          unparseable, now, lastOp>>

\* What the operations on the stores leave alone: the calls in flight and
\* the work cycles of the engine.
aside == <<inflight, workflows>>

\* What the task operations leave alone, apart from the clock.
otherStores == <<missions, loops, plans, aside>>

\* A save writes valid JSON over whatever the file held; an operation that
\* returns or throws before its save leaves the file as it is.
AfterSave(store, saved) ==
    unparseable' = IF saved THEN unparseable \ {store} ELSE unparseable

(***************************************************************************)
(* Bounds and input sets                                                   *)
(***************************************************************************)
\* Task ids the callers use (string keys of tasks.json).
TaskIds == {"T1", "T2", "T3"}

\* blockedBy ids a caller may pass.
BlockerIds == {"X"}

Priorities == {"high", "medium", "low"}

\* Largest value of the millisecond clock.
MaxTime == 3

\* Largest number of directives in one send_batch_directives call.
MaxBatch == 2

\* completedAt of a task that was never completed (the field is absent).
NoTime == 0

(***************************************************************************)
(* TaskQueue: pure helpers                                                 *)
(***************************************************************************)
Range(s) == {s[i] : i \in 1..Len(s)}

\* tasks[id] = rec, as a JS object assignment: a new key is appended to the
\* key order, an existing key keeps its position.
Put(ts, id, rec) == [x \in (DOMAIN ts) \cup {id} |-> IF x = id THEN rec ELSE ts[x]]

PutOrder(ord, id) == IF id \in Range(ord) THEN ord ELSE Append(ord, id)

\* priorityOrder of getNextWorkableTask.
priorityOrder(p) == CASE p = "high" -> 0 [] p = "medium" -> 1 [] p = "low" -> 2

\* hasUnmetDependencies of updateTaskAvailability: some dependency is not in
\* the store or is not completed.
hasUnmetDependencies(ts, id) ==
    \E d \in ts[id].dependsOn : d \notin DOMAIN ts \/ ts[d].status # "completed"

isBlocked(ts, id) == ts[id].blockedBy # {}

\* Variant of NewAvailability that leaves started work (in_progress,
\* needs_revision) untouched even when a dependency is unmet.
NewAvailability_KeepsStarted(ts, id) ==
    LET st == ts[id].status IN
    IF st \in {"completed", "in_review", "in_progress", "needs_revision"} THEN st
    ELSE IF hasUnmetDependencies(ts, id) \/ isBlocked(ts, id) THEN "blocked"
    ELSE IF st = "blocked" THEN "available"
    ELSE IF st = "pending"
         THEN (IF ts[id].dependsOn = {} THEN "available" ELSE "blocked")
    ELSE st

\* Variant of NewAvailability that leaves a blocked task blocked when its
\* dependencies are met.
NewAvailability_NeverUnblocks(ts, id) ==
    LET st == ts[id].status IN
    IF st \in {"completed", "in_review"} THEN st
    ELSE IF hasUnmetDependencies(ts, id) \/ isBlocked(ts, id) THEN "blocked"
    ELSE IF st = "pending"
         THEN (IF ts[id].dependsOn = {} THEN "available" ELSE "blocked")
    ELSE st

\* The status updateTaskAvailability gives to one task.
NewAvailability(ts, id) ==
    LET st == ts[id].status IN
    IF st \in {"completed", "in_review"} THEN st
    ELSE IF hasUnmetDependencies(ts, id) \/ isBlocked(ts, id) THEN "blocked"
    ELSE IF st = "blocked" THEN "available"
    ELSE IF st = "pending"
         THEN (IF ts[id].dependsOn = {} THEN "available" ELSE "blocked")
    ELSE st

\* updateTaskAvailability(tasks, taskIdToUpdate): scope is the set of ids the
\* loop visits.  The loop writes only blocked/available and reads only whether
\* a dependency is completed, so the visiting order does not matter.
updateTaskAvailability(ts, scope) ==
    [x \in DOMAIN ts |->
        IF x \in scope THEN [ts[x] EXCEPT !.status = NewAvailability(ts, x)]
        ELSE ts[x]]

\* The record addDirective / addBatchDirectives store for a directive.
NewTask(d, t) ==
    [status |-> "pending", priority |-> d.priority, dependsOn |-> d.dependsOn,
     blockedBy |-> d.blockedBy, createdAt |-> t, completedAt |-> NoTime]

\* addDirective: store the record, then recompute this task only.
addDirective(ts, d, t) ==
    updateTaskAvailability(Put(ts, d.taskId, NewTask(d, t)), {d.taskId})

\* addSubmission on an existing task.
addSubmission(ts, id) == [ts EXCEPT ![id].status = "in_review"]

\* Variant of addReview that completes the task without recomputing the
\* availability of the other tasks.
addReview_NoCascade(ts, id, verdict, t) ==
    IF verdict = "approved"
    THEN [ts EXCEPT ![id].status = "completed", ![id].completedAt = t]
    ELSE [ts EXCEPT ![id].status = "needs_revision"]

\* addReview on an existing task.
addReview(ts, id, verdict, t) ==
    IF verdict = "approved"
    THEN updateTaskAvailability(
            [ts EXCEPT ![id].status = "completed", ![id].completedAt = t],
            DOMAIN ts)
    ELSE [ts EXCEPT ![id].status = "needs_revision"]

\* markTaskComplete: silently does nothing for an unknown id.
markTaskComplete(ts, id, t) ==
    IF id \in DOMAIN ts
    THEN updateTaskAvailability(
            [ts EXCEPT ![id].status = "completed", ![id].completedAt = t],
            DOMAIN ts)
    ELSE ts

\* unblockTask on an existing task.
unblockTask(ts, id, blocker) ==
    updateTaskAvailability(
        [ts EXCEPT ![id].blockedBy = ts[id].blockedBy \ {blocker}], {id})

\* updateTaskStatus: silently does nothing for an unknown id.
updateTaskStatus(ts, id, newStatus) ==
    IF id \in DOMAIN ts THEN [ts EXCEPT ![id].status = newStatus] ELSE ts

\* addBatchDirectives: every directive is stored in turn (a later one with
\* the same id overwrites the earlier), then all tasks are recomputed.
RECURSIVE PutAll(_, _, _)
PutAll(ts, batch, t) ==
    IF batch = <<>> THEN ts
    ELSE PutAll(Put(ts, Head(batch).taskId, NewTask(Head(batch), t)), Tail(batch), t)

RECURSIVE PutOrderAll(_, _)
PutOrderAll(ord, batch) ==
    IF batch = <<>> THEN ord
    ELSE PutOrderAll(PutOrder(ord, Head(batch).taskId), Tail(batch))

addBatchDirectives(ts, batch, t) ==
    LET stored == PutAll(ts, batch, t) IN updateTaskAvailability(stored, DOMAIN stored)

\* The first loop of getNextWorkableTask: the first in_progress task in key
\* order, "none" when there is none.
RECURSIVE FirstInProgress(_, _)
FirstInProgress(ts, ord) ==
    IF ord = <<>> THEN "none"
    ELSE IF ts[Head(ord)].status = "in_progress" THEN Head(ord)
    ELSE FirstInProgress(ts, Tail(ord))

\* The second loop of getNextWorkableTask: best is replaced only by a task of
\* strictly smaller priorityOrder.
RECURSIVE BestTask(_, _, _)
BestTask(ts, ord, best) ==
    IF ord = <<>> THEN best
    ELSE LET id == Head(ord) IN
         IF ts[id].status \notin {"available", "needs_revision"}
         THEN BestTask(ts, Tail(ord), best)
         ELSE IF best = "none" THEN BestTask(ts, Tail(ord), id)
         ELSE IF priorityOrder(ts[id].priority) < priorityOrder(ts[best].priority)
              THEN BestTask(ts, Tail(ord), id)
         ELSE BestTask(ts, Tail(ord), best)

\* The task getNextWorkableTask returns from an already recomputed store.
SelectFrom(ts, ord) ==
    IF FirstInProgress(ts, ord) # "none" THEN FirstInProgress(ts, ord)
    ELSE BestTask(ts, ord, "none")

\* The sort key of getPendingTasks: priorityOrder[p] || 1.
ListingRank(p) == IF priorityOrder(p) = 0 THEN 1 ELSE priorityOrder(p)

\* The developer listing of getPendingTasks from an already recomputed store:
\* the workable tasks in key order, stably sorted by ListingRank.
DeveloperListing(ts, ord) ==
    LET shown == SelectSeq(ord, LAMBDA id :
                    ts[id].status \in {"available", "in_progress", "needs_revision"})
    IN  SelectSeq(shown, LAMBDA id : ListingRank(ts[id].priority) = 1)
        \o SelectSeq(shown, LAMBDA id : ListingRank(ts[id].priority) = 2)

(***************************************************************************)
(* Inputs                                                                  *)
(***************************************************************************)
Directive(id, prio, deps, blk) ==
    [taskId |-> id, priority |-> prio, dependsOn |-> deps, blockedBy |-> blk]

\* The directives the callers send: T1 has no dependency and may be created
\* with a blocker, T2 may depend on T1, T3 depends on T1 and T2.  A dependency
\* need not be in the store when the directive is sent.
Directives(prios) ==
    {Directive("T1", p, {}, b) : p \in prios, b \in {{}} \cup {{x} : x \in BlockerIds}}
    \cup {Directive("T2", p, d, {}) : p \in prios, d \in {{}, {"T1"}}}
    \cup {Directive("T3", p, d, {}) : p \in prios, d \in {{"T1", "T2"}}}

\* The directives sent in batches: a chain T1 <- T2 <- T3.
BatchDirectives(prios) ==
    {Directive("T1", p, {}, {}) : p \in prios}
    \cup {Directive("T2", p, {"T1"}, {}) : p \in prios}
    \cup {Directive("T3", p, {"T1", "T2"}, {}) : p \in prios}

Batches(ds) == UNION {[1..n -> ds] : n \in 1..MaxBatch}

\* Two directives of the batch carry the same taskId.
HasDuplicateIds(batch) ==
    \E i, j \in 1..Len(batch) : i < j /\ batch[i].taskId = batch[j].taskId

Op(name, id, arg, ret) == [op |-> name, id |-> id, arg |-> arg, ret |-> ret]

(***************************************************************************)
(* Task operations                                                         *)
(***************************************************************************)
\* Tool handler send_directive -> TaskQueue.addDirective.
SendDirective(ds) ==
    \E d \in ds :
        /\ tasks' = addDirective(tasks, d, now)
        /\ order' = PutOrder(order, d.taskId)
        /\ lastOp' = Op("addTask", d.taskId, "", "ok")
        /\ AfterSave("tasks", TRUE)
        /\ UNCHANGED <<now, otherStores>>

\* Tool handler send_batch_directives -> TaskQueue.addBatchDirectives.
SendBatchDirectives(ds) ==
    \E batch \in Batches(ds) :
        /\ tasks' = addBatchDirectives(tasks, batch, now)
        /\ order' = PutOrderAll(order, batch)
        /\ lastOp' = Op("addBatch", "",
                        IF HasDuplicateIds(batch) THEN "duplicate_ids" ELSE "", "ok")
        /\ AfterSave("tasks", TRUE)
        /\ UNCHANGED <<now, otherStores>>

\* TaskQueue.addSubmission: throws for an unknown task.
AddSubmission ==
    \E id \in TaskIds :
        /\ IF id \in DOMAIN tasks
           THEN /\ tasks' = addSubmission(tasks, id)
                /\ lastOp' = Op("submitWork", id, "", "ok")
           ELSE /\ tasks' = tasks
                /\ lastOp' = Op("submitWork", id, "", "not_found")
        /\ AfterSave("tasks", id \in DOMAIN tasks)
        /\ UNCHANGED <<order, now, otherStores>>

\* TaskQueue.addReview: throws for an unknown task.
AddReview ==
    \E id \in TaskIds, verdict \in {"approved", "needs_revision"} :
        /\ IF id \in DOMAIN tasks
           THEN /\ tasks' = addReview(tasks, id, verdict, now)
                /\ lastOp' = Op("review", id, verdict, "ok")
           ELSE /\ tasks' = tasks
                /\ lastOp' = Op("review", id, verdict, "not_found")
        /\ AfterSave("tasks", id \in DOMAIN tasks)
        /\ UNCHANGED <<order, now, otherStores>>

\* TaskQueue.markTaskComplete.
MarkTaskComplete ==
    \E id \in TaskIds :
        /\ tasks' = markTaskComplete(tasks, id, now)
        /\ lastOp' = Op("markTaskComplete", id, "", "ok")
        /\ AfterSave("tasks", id \in DOMAIN tasks)
        /\ UNCHANGED <<order, now, otherStores>>

\* TaskQueue.getNextWorkableTask: recompute all, save, select.
GetNextWorkableTask ==
    /\ tasks' = updateTaskAvailability(tasks, DOMAIN tasks)
    /\ lastOp' = Op("selectNextTask", "", "", SelectFrom(tasks', order))
    /\ AfterSave("tasks", TRUE)
    /\ UNCHANGED <<order, now, otherStores>>

\* TaskQueue.getPendingTasks('developer'): recompute all, save, list.
GetPendingTasks ==
    /\ tasks' = updateTaskAvailability(tasks, DOMAIN tasks)
    /\ lastOp' = Op("listTasks", "", "developer", DeveloperListing(tasks', order))
    /\ AfterSave("tasks", TRUE)
    /\ UNCHANGED <<order, now, otherStores>>

\* TaskQueue.unblockTask: throws for an unknown task.
UnblockTask ==
    \E id \in TaskIds, b \in BlockerIds :
        /\ IF id \in DOMAIN tasks
           THEN /\ tasks' = unblockTask(tasks, id, b)
                /\ lastOp' = Op("unblockTask", id, b, "ok")
           ELSE /\ tasks' = tasks
                /\ lastOp' = Op("unblockTask", id, b, "not_found")
        /\ AfterSave("tasks", id \in DOMAIN tasks)
        /\ UNCHANGED <<order, now, otherStores>>

\* TaskQueue.updateTaskStatus(taskId, 'in_progress').
MarkInProgress ==
    \E id \in TaskIds :
        /\ tasks' = updateTaskStatus(tasks, id, "in_progress")
        /\ lastOp' = Op("markInProgress", id, "", "ok")
        /\ AfterSave("tasks", id \in DOMAIN tasks)
        /\ UNCHANGED <<order, now, otherStores>>

\* The clock advances between calls.
Tick ==
    /\ now < MaxTime
    /\ now' = now + 1
    /\ UNCHANGED <<tasks, order, missions, loops, plans, aside, unparseable, lastOp>>

(***************************************************************************)
(* Specification of the task graph: an empty tasks.json, every TaskQueue   *)
(* operation, all calls within one clock value.                            *)
(***************************************************************************)
Init ==
    /\ tasks = <<>>
    /\ order = <<>>
    /\ missions = <<>>
    /\ loops = <<>>
    /\ plans = <<>>
    /\ inflight = <<>>
    /\ workflows = <<>>
    /\ unparseable = {}
    /\ now = 1
    /\ lastOp = Op("init", "", "", "ok")

GraphDirectives == Directives({"medium"})

GraphBatchDirectives == BatchDirectives({"medium"})

Next ==
    \/ SendDirective(GraphDirectives)
    \/ SendBatchDirectives(GraphBatchDirectives)
    \/ AddSubmission
    \/ AddReview
    \/ MarkTaskComplete
    \/ GetNextWorkableTask
    \/ GetPendingTasks
    \/ UnblockTask
    \/ MarkInProgress

Spec == Init /\ [][Next]_vars

(***************************************************************************)
(* Specification of task selection: tasks without dependencies, all three  *)
(* priorities, a running clock.                                            *)
(***************************************************************************)
SelectIds == {"T1", "T2"}

SelectDirectives == {Directive(id, p, {}, {}) : id \in SelectIds, p \in Priorities}

NextSelect ==
    \/ SendDirective(SelectDirectives)
    \/ AddSubmission
    \/ AddReview
    \/ GetNextWorkableTask
    \/ MarkInProgress
    \/ Tick

SpecSelect == Init /\ [][NextSelect]_vars

(***************************************************************************)
(* MissionManager                                                          *)
(***************************************************************************)
\* maxIterations of a mission created without one (or with 0).
DefaultMissionMaxIterations == 50

\* maxIterations a caller may pass to createMission; 0 stands for none.
MissionMaxIterationInputs == {0, 2}

\* No progress check is made on a mission that has had this many.
MaxChecks == 3

MissionStatuses == {"active", "paused", "completed", "stopped"}

\* Task ids a caller may put into a mission.
MissionTaskIds == {"T1", "T2"}

\* createMission: the id is MISSION-<Date.now()>, so a second mission created
\* at the same clock value replaces the first.
createMission(ms, maxIt, t) ==
    Put(ms, t, [status |-> "active", tasks |-> <<>>, iterations |-> 0,
                maxIterations |-> IF maxIt = 0 THEN DefaultMissionMaxIterations
                                  ELSE maxIt,
                completedAt |-> NoTime])

\* Variant of addTaskToMission that appends without looking for the id.
addTaskToMission_AlwaysAppends(ms, m, id) == [ms EXCEPT ![m].tasks = Append(@, id)]

\* addTaskToMission on an existing mission.
addTaskToMission(ms, m, id) ==
    IF id \in Range(ms[m].tasks) THEN ms
    ELSE [ms EXCEPT ![m].tasks = Append(@, id)]

\* updateMissionStatus on an existing mission.
updateMissionStatus(ms, m, status, t) ==
    [ms EXCEPT ![m].status = status,
               ![m].completedAt = IF status = "completed" THEN t ELSE @]

\* Variant of checkAcceptanceCriteria that reports every criterion met.
checkAcceptanceCriteria_AllMet(ms, m) == [allMet |-> TRUE, requiresEvaluation |-> FALSE]

\* checkAcceptanceCriteria: every criterion is pending_evaluation.
checkAcceptanceCriteria(ms, m) == [allMet |-> FALSE, requiresEvaluation |-> TRUE]

\* Number of member tasks of the mission that are stored with one of the
\* statuses.
CountMembers(ms, m, ts, statuses) ==
    Cardinality({i \in 1..Len(ms[m].tasks) :
                    /\ ms[m].tasks[i] \in DOMAIN ts
                    /\ ts[ms[m].tasks[i]].status \in statuses})

\* Math.round(completed / total * 100), 0 for an empty mission.
PercentComplete(completed, total) ==
    IF total > 0 THEN (200 * completed + total) \div (2 * total) ELSE 0

\* The progress object of checkMissionProgress.  Task records have no
\* "blocked" field, which is what blockedTasks counts: no status counts.
Progress(ms, m, ts) ==
    LET total == Len(ms[m].tasks)
        completed == CountMembers(ms, m, ts, {"completed"})
    IN  [totalTasks |-> total,
         completedTasks |-> completed,
         inProgressTasks |-> CountMembers(ms, m, ts, {"in_review"}),
         pendingTasks |-> CountMembers(ms, m, ts, {"pending", "needs_revision"}),
         blockedTasks |-> CountMembers(ms, m, ts, {}),
         percentComplete |-> PercentComplete(completed, total)]

\* The mission is evaluated against its acceptance criteria.
AllTasksDone(ms, m, ts) ==
    /\ Progress(ms, m, ts).completedTasks = Progress(ms, m, ts).totalTasks
    /\ Progress(ms, m, ts).totalTasks > 0

\* Variant of checkMissionProgress that counts an iteration only while the
\* mission is active.
checkMissionProgress_ActiveOnly(ms, m, ts, t) ==
    IF ms[m].status = "active" THEN [ms EXCEPT ![m].iterations = @ + 1] ELSE ms

\* missions.json as it is before the final save of checkMissionProgress: when
\* the criteria are all met, updateMissionStatus has loaded, changed and saved
\* the store on its own.
MissionStoreBeforeSave(ms, m, ts, t) ==
    IF AllTasksDone(ms, m, ts) /\ checkAcceptanceCriteria(ms, m).allMet
    THEN updateMissionStatus(ms, m, "completed", t)
    ELSE ms

\* The store checkMissionProgress leaves: its final save writes the snapshot
\* loaded at the start of the call, with the iteration counted, over
\* MissionStoreBeforeSave.
checkMissionProgress(ms, m, ts, t) == [ms EXCEPT ![m].iterations = @ + 1]

\* shouldContinue of checkMissionProgress, from the mission object it returns.
ShouldContinue(mission) ==
    mission.status = "active" /\ mission.iterations < mission.maxIterations

\* Whether the result carries acceptanceCriteriaStatus with requiresEvaluation.
RequiresEvaluation(ms, m, ts) ==
    /\ AllTasksDone(ms, m, ts)
    /\ ~checkAcceptanceCriteria(ms, m).allMet
    /\ checkAcceptanceCriteria(ms, m).requiresEvaluation

\* What checkMissionProgress returns.
CheckResult(ms, m, ts, after) ==
    [progress |-> Progress(ms, m, ts),
     requiresEvaluation |-> RequiresEvaluation(ms, m, ts),
     shouldContinue |-> ShouldContinue(after[m])]

\* No mission has this id: Date.now() is positive.
NoMission == 0

MissionIds == 1..MaxTime

taskStores == <<tasks, order>>

CreateMission ==
    \E maxIt \in MissionMaxIterationInputs :
        /\ missions' = createMission(missions, maxIt, now)
        /\ lastOp' = Op("createMission", now, "", "ok")
        /\ AfterSave("missions", TRUE)
        /\ UNCHANGED <<taskStores, loops, plans, aside, now>>

AddTaskToMission ==
    \E m \in MissionIds, id \in MissionTaskIds :
        /\ IF m \in DOMAIN missions
           THEN /\ missions' = addTaskToMission(missions, m, id)
                /\ lastOp' = Op("addTaskToMission", m, id, "ok")
           ELSE /\ missions' = missions
                /\ lastOp' = Op("addTaskToMission", m, id, "not_found")
        /\ AfterSave("missions", missions' # missions)
        /\ UNCHANGED <<taskStores, loops, plans, aside, now>>

UpdateMissionStatus ==
    \E m \in MissionIds, status \in MissionStatuses :
        /\ IF m \in DOMAIN missions
           THEN /\ missions' = updateMissionStatus(missions, m, status, now)
                /\ lastOp' = Op("updateMissionStatus", m, status, "ok")
           ELSE /\ missions' = missions
                /\ lastOp' = Op("updateMissionStatus", m, status, "not_found")
        /\ AfterSave("missions", m \in DOMAIN missions)
        /\ UNCHANGED <<taskStores, loops, plans, aside, now>>

CheckMissionProgress ==
    \E m \in MissionIds :
        /\ IF m \in DOMAIN missions
           THEN /\ missions[m].iterations < MaxChecks
                /\ missions' = checkMissionProgress(missions, m, tasks, now)
                /\ lastOp' = Op("checkProgress", m, "",
                                CheckResult(missions, m, tasks, missions'))
           ELSE /\ missions' = missions
                /\ lastOp' = Op("checkProgress", m, "", "not_found")
        /\ AfterSave("missions", m \in DOMAIN missions)
        /\ UNCHANGED <<taskStores, loops, plans, aside, now>>

(***************************************************************************)
(* Specification of the mission tracker: one mission id, two member tasks  *)
(* without dependencies.                                                   *)
(***************************************************************************)
MissionDirectives == {Directive(id, "medium", {}, {}) : id \in MissionTaskIds}

NextMission ==
    \/ CreateMission
    \/ AddTaskToMission
    \/ UpdateMissionStatus
    \/ CheckMissionProgress
    \/ SendDirective(MissionDirectives)
    \/ AddReview

SpecMission == Init /\ [][NextMission]_vars

(***************************************************************************)
(* LoopStateManager and the loop tool handlers                             *)
(***************************************************************************)
\* maxIterations and checkInterval of a loop started without them (or with 0).
DefaultLoopMaxIterations == 100
DefaultCheckInterval == 30

\* maxIterations a caller may pass to start_autonomous_loop (a number; 0
\* stands for none) and the check intervals, in seconds.
LoopMaxIterationInputs == {-1, 0, 2}
CheckIntervalInputs == {0, 1}

\* No poll is made on a loop that has had this many.
MaxPolls == 3

\* The reason a caller gives when it stops a loop.
StopReasons == {"user request"}

\* The agents of the default configuration and their roles.
Agents == {"claude", "gemini"}
RoleOf(agent) == IF agent = "claude" THEN "Senior Developer"
                 ELSE "Chief Technology Officer"

\* startLoop: a fresh loop state replaces the agent's previous one.
\* consecutiveEmptyChecks is not set; the handler reads it as 0.
startLoop(ls, agent, maxIt, interval, t) ==
    LET iv == IF interval = 0 THEN DefaultCheckInterval ELSE interval IN
    Put(ls, agent,
        [maxIterations |-> IF maxIt = 0 THEN DefaultLoopMaxIterations ELSE maxIt,
         checkInterval |-> iv,
         currentIteration |-> 0,
         isActive |-> TRUE,
         stopReason |-> "",
         stoppedAt |-> NoTime,
         lastCheckAt |-> NoTime,
         nextCheckAt |-> t + iv * 1000,
         consecutiveEmptyChecks |-> 0])

\* stopLoop on an existing loop state: no reason is recorded.
stopLoop(ls, agent, t) ==
    [ls EXCEPT ![agent].isActive = FALSE, ![agent].stoppedAt = t]

\* Variant of incrementIteration that stops one iteration late.
incrementIteration_StopsLate(ls, agent, t) ==
    IF agent \notin DOMAIN ls \/ ~ls[agent].isActive THEN ls
    ELSE LET n == ls[agent].currentIteration + 1
             reached == n > ls[agent].maxIterations
         IN  [ls EXCEPT ![agent].currentIteration = n,
                        ![agent].lastCheckAt = t,
                        ![agent].nextCheckAt = t + ls[agent].checkInterval * 1000,
                        ![agent].isActive = ~reached,
                        ![agent].stoppedAt = IF reached THEN t ELSE @,
                        ![agent].stopReason =
                            IF reached THEN "Max iterations reached" ELSE @]

\* incrementIteration: nothing for a missing or inactive loop.
incrementIteration(ls, agent, t) ==
    IF agent \notin DOMAIN ls \/ ~ls[agent].isActive THEN ls
    ELSE LET n == ls[agent].currentIteration + 1
             reached == n >= ls[agent].maxIterations
         IN  [ls EXCEPT ![agent].currentIteration = n,
                        ![agent].lastCheckAt = t,
                        ![agent].nextCheckAt = t + ls[agent].checkInterval * 1000,
                        ![agent].isActive = ~reached,
                        ![agent].stoppedAt = IF reached THEN t ELSE @,
                        ![agent].stopReason =
                            IF reached THEN "Max iterations reached" ELSE @]

\* updateLoop as get_loop_status calls it: consecutiveEmptyChecks is reset
\* when work was found and counted up otherwise.
updateLoop(ls, agent, workFound) ==
    IF agent \notin DOMAIN ls THEN ls
    ELSE [ls EXCEPT ![agent].consecutiveEmptyChecks = IF workFound THEN 0 ELSE @ + 1]

\* The task store after the reads get_loop_status makes for an agent whose
\* loop is active: getWorkForAgent lists the pending tasks, and the developer
\* branch lists them again and selects; each of them recomputes and saves.
PolledTasks(ts, agent) ==
    LET once == updateTaskAvailability(ts, DOMAIN ts) IN
    IF RoleOf(agent) = "Senior Developer"
    THEN LET twice == updateTaskAvailability(once, DOMAIN once)
         IN  updateTaskAvailability(twice, DOMAIN twice)
    ELSE once

\* workFound of get_loop_status, from the store PolledTasks leaves.  A task in
\* review always has a submission pending review; no question and no project
\* plan is stored.
WorkFound(ts, ord, agent) ==
    IF RoleOf(agent) = "Senior Developer"
    THEN SelectFrom(ts, ord) # "none"
    ELSE \/ \E id \in DOMAIN ts : ts[id].status = "in_review"
         \/ /\ ~\E id \in DOMAIN ts : ts[id].status \in {"pending", "in_progress"}
            /\ ~\E id \in DOMAIN ts : ts[id].status \in {"in_progress", "in_review"}

\* The task store get_loop_status leaves: the developer's selected task is
\* marked in_progress.
TasksAfterPoll(ts, ord, agent) ==
    LET polled == PolledTasks(ts, agent) IN
    IF RoleOf(agent) = "Senior Developer" /\ SelectFrom(polled, ord) # "none"
    THEN updateTaskStatus(polled, SelectFrom(polled, ord), "in_progress")
    ELSE polled

\* Variant of LoopsAfterPoll that counts the iteration of a stopped loop too.
LoopsAfterPoll_CountsStopped(ls, agent, workFound, t) ==
    LET counted == incrementIteration([ls EXCEPT ![agent].isActive = TRUE], agent, t)
    IN  IF counted[agent].isActive THEN updateLoop(counted, agent, workFound)
        ELSE counted

\* The loop states get_loop_status leaves for an agent that has one: the
\* iteration of an active loop is counted; if the loop is then inactive the
\* handler returns, else it records whether work was found.
LoopsAfterPoll(ls, agent, workFound, t) ==
    LET counted == IF ls[agent].isActive THEN incrementIteration(ls, agent, t) ELSE ls
    IN  IF counted[agent].isActive THEN updateLoop(counted, agent, workFound)
        ELSE counted

\* The snapshot get_loop_status reports.
Snapshot(l) ==
    [isActive |-> l.isActive, currentIteration |-> l.currentIteration,
     maxIterations |-> l.maxIterations, stoppedAt |-> l.stoppedAt,
     stopReason |-> l.stopReason]

\* Tool handler start_autonomous_loop.
StartLoop ==
    \E agent \in Agents, maxIt \in LoopMaxIterationInputs, iv \in CheckIntervalInputs :
        /\ loops' = startLoop(loops, agent, maxIt, iv, now)
        /\ lastOp' = Op("start", agent, "", "ok")
        /\ AfterSave("loops", TRUE)
        /\ UNCHANGED <<taskStores, missions, plans, aside, now>>

\* Tool handler stop_autonomous_loop.  The handler reads agentName from its
\* arguments and nothing else: a reason the caller passes is dropped.
StopLoop ==
    \E agent \in Agents, reason \in StopReasons :
        /\ IF agent \in DOMAIN loops
           THEN /\ loops' = stopLoop(loops, agent, now)
                /\ lastOp' = Op("stop", agent, reason, Snapshot(loops'[agent]))
           ELSE /\ loops' = loops
                /\ lastOp' = Op("stop", agent, reason, "no_loop")
        /\ AfterSave("loops", agent \in DOMAIN loops)
        /\ UNCHANGED <<taskStores, missions, plans, aside, now>>

(***************************************************************************)
(* ProjectPlanManager and the plan tool handlers                           *)
(***************************************************************************)
\* Plan ids are PLAN-<Date.now()>: the clock values at which plans are made.
PlanIds == {1, 2}

\* getActivePlan and getNextPhase return null when there is nothing to return.
NoPlan == 0

\* Phases are known by their names.  A plan is created with one of these
\* phase lists; the tool create_project_plan always passes the empty one.
PlanPhaseInputs == {<<>>, <<"A">>, <<"A", "B">>}

\* The phase an adjustment adds or puts in place of another.
NewPhases == {"N"}

\* The only phase of the plan of an ad-hoc mission.
AdHocPhase == "Ad-hoc Mission"

\* No phase is added to a plan that has this many.
MaxPhases == 3

\* No phase is completed on a plan whose currentPhase has come this far.
MaxPhaseIndex == 3

\* createProjectPlan: a plan made at the clock value of an existing plan
\* replaces it.
createProjectPlan(ps, phases, adHoc, t) ==
    Put(ps, t, [phases |-> phases, currentPhase |-> 0, status |-> "active",
                completedPhases |-> <<>>, isAdHoc |-> adHoc])

\* getActivePlan: the first plan with status active, in key order, which is
\* the order of creation.
getActivePlan(ps) ==
    LET active == {id \in DOMAIN ps : ps[id].status = "active"} IN
    IF active = {} THEN NoPlan
    ELSE CHOOSE id \in active : \A other \in active : id <= other

\* The entry updatePlanProgress appends to completedPhases: the index and the
\* fields of the current phase, none of them when the index is past the list.
CompletedPhase(plan) ==
    [phaseIndex |-> plan.currentPhase,
     phase |-> IF plan.currentPhase < Len(plan.phases)
               THEN plan.phases[plan.currentPhase + 1] ELSE "none"]

\* Variant of updatePlanProgress that completes the plan when its last phase
\* is reached, not when it is finished.
updatePlanProgress_CompletesEarly(ps, id, phaseComplete) ==
    IF ~phaseComplete THEN ps
    ELSE [ps EXCEPT ![id].completedPhases = Append(@, CompletedPhase(ps[id])),
                    ![id].currentPhase = @ + 1,
                    ![id].status = IF ps[id].currentPhase + 2 >= Len(ps[id].phases)
                                   THEN "completed" ELSE @]

\* updatePlanProgress on an existing plan, with currentPhaseComplete.
updatePlanProgress(ps, id, phaseComplete) ==
    IF ~phaseComplete THEN ps
    ELSE [ps EXCEPT ![id].completedPhases = Append(@, CompletedPhase(ps[id])),
                    ![id].currentPhase = @ + 1,
                    ![id].status = IF ps[id].currentPhase + 1 >= Len(ps[id].phases)
                                   THEN "completed" ELSE @]

\* Array.splice(at, 0, x) and Array.splice(at, 1) on a phase list, 0-based.
InsertAt(phases, at, x) ==
    SubSeq(phases, 1, at) \o <<x>> \o SubSeq(phases, at + 1, Len(phases))

RemoveAt(phases, at) ==
    SubSeq(phases, 1, at) \o SubSeq(phases, at + 2, Len(phases))

\* The adjustments adjustPlan applies to a phase list, with indexes inside it.
Adjustments(phases) ==
    {[type |-> "add_phase", at |-> i, to |-> 0, phase |-> p] :
        i \in -1..(Len(phases) - 1), p \in NewPhases}
    \cup {[type |-> "modify_phase", at |-> i, to |-> 0, phase |-> p] :
        i \in 0..(Len(phases) - 1), p \in NewPhases}
    \cup {[type |-> "reorder_phases", at |-> i, to |-> j, phase |-> ""] :
        i \in 0..(Len(phases) - 1), j \in 0..(Len(phases) - 1)}

\* adjustPlan on an existing plan.
adjustPlan(ps, id, adj) ==
    LET phases == ps[id].phases IN
    [ps EXCEPT ![id].phases =
        CASE adj.type = "add_phase" -> InsertAt(phases, adj.at + 1, adj.phase)
          [] adj.type = "modify_phase" -> [phases EXCEPT ![adj.at + 1] = adj.phase]
          [] adj.type = "reorder_phases" ->
                InsertAt(RemoveAt(phases, adj.at), adj.to, phases[adj.at + 1])]

\* getNextPhase: null for a missing plan, a plan that is not active and a
\* plan without a phase left.
getNextPhase(ps, id) ==
    IF id \notin DOMAIN ps THEN "none"
    ELSE IF ps[id].status # "active" THEN "none"
    ELSE IF ps[id].currentPhase < Len(ps[id].phases)
         THEN ps[id].phases[ps[id].currentPhase + 1]
         ELSE "none"

\* pauseCurrentPlan: the active plan getActivePlan finds is paused.
pauseCurrentPlan(ps) ==
    IF getActivePlan(ps) = NoPlan THEN ps
    ELSE [ps EXCEPT ![getActivePlan(ps)].status = "paused"]

\* resumePlan: every active plan is paused and the plan is made active; for
\* a missing plan nothing is saved.
resumePlan(ps, id) ==
    IF id \notin DOMAIN ps THEN ps
    ELSE [x \in DOMAIN ps |->
            IF x = id THEN [ps[x] EXCEPT !.status = "active"]
            ELSE IF ps[x].status = "active" THEN [ps[x] EXCEPT !.status = "paused"]
            ELSE ps[x]]

\* The ad-hoc mission is titled as the directive with this id is.
AdHocTask == "T1"

\* The task specs a phase lists, each known by the id of the directive that
\* carries its title.  Only the phase of an ad-hoc mission lists one.
PhaseTasks(phase) == IF phase = AdHocPhase THEN {AdHocTask} ELSE {}

\* The CTO branch of get_loop_status comes to the project plan: no task is
\* in review, and none is pending, in_progress or in_review.
CtoPlans(ts) ==
    /\ ~\E id \in DOMAIN ts : ts[id].status = "in_review"
    /\ ~\E id \in DOMAIN ts : ts[id].status \in {"pending", "in_progress"}

\* newTasks of the CTO branch: the task specs of the next phase of the active
\* plan that no completed task matches by title; none when the branch does
\* not come to a next phase.
ProposedTasks(ps, ts, agent) ==
    IF /\ RoleOf(agent) = "Chief Technology Officer"
       /\ CtoPlans(ts)
       /\ getActivePlan(ps) # NoPlan
       /\ getNextPhase(ps, getActivePlan(ps)) # "none"
    THEN {id \in PhaseTasks(getNextPhase(ps, getActivePlan(ps))) :
            ~(id \in DOMAIN ts /\ ts[id].status = "completed")}
    ELSE {}

\* The CTO branch calls updatePlanProgress when it comes to a next phase.
PollSavesPlan(ps, ts, agent) ==
    /\ RoleOf(agent) = "Chief Technology Officer"
    /\ CtoPlans(ts)
    /\ getActivePlan(ps) # NoPlan
    /\ getNextPhase(ps, getActivePlan(ps)) # "none"

\* The plans get_loop_status leaves for an agent whose loop is active: the
\* phase is completed when every task spec of it is matched.
PlansAfterPoll(ps, ts, agent) ==
    IF PollSavesPlan(ps, ts, agent)
    THEN updatePlanProgress(ps, getActivePlan(ps), ProposedTasks(ps, ts, agent) = {})
    ELSE ps

\* Tool handler get_loop_status; the call is recorded with whether the loop
\* was active when it came in.  Without a loop state it returns at once;
\* with a loop that is or has just become inactive it has still read the
\* pending tasks, which recomputes and saves the task store.
GetLoopStatus ==
    \E agent \in Agents :
        /\ IF agent \notin DOMAIN loops
           THEN /\ loops' = loops
                /\ tasks' = tasks
                /\ plans' = plans
                /\ lastOp' = Op("poll", agent, "", "no_loop")
           ELSE /\ loops[agent].isActive => loops[agent].currentIteration < MaxPolls
                /\ loops' = LoopsAfterPoll(loops, agent,
                                WorkFound(PolledTasks(tasks, agent), order, agent), now)
                /\ tasks' = IF loops'[agent].isActive
                            THEN TasksAfterPoll(tasks, order, agent)
                            ELSE updateTaskAvailability(tasks, DOMAIN tasks)
                /\ plans' = IF loops'[agent].isActive
                            THEN PlansAfterPoll(plans, PolledTasks(tasks, agent), agent)
                            ELSE plans
                /\ lastOp' = Op("poll", agent,
                                 IF loops[agent].isActive THEN "active" ELSE "stopped",
                                 Snapshot(loops'[agent]))
        /\ unparseable' =
              IF agent \notin DOMAIN loops THEN unparseable
              ELSE ((unparseable \ {"tasks"})
                      \ (IF loops[agent].isActive THEN {"loops"} ELSE {}))
                      \ (IF /\ loops'[agent].isActive
                            /\ PollSavesPlan(plans, PolledTasks(tasks, agent), agent)
                         THEN {"plans"} ELSE {})
        /\ UNCHANGED <<order, missions, aside, now>>

(***************************************************************************)
(* Specification of the loop controller: both agents, one task, a frozen   *)
(* clock.                                                                  *)
(***************************************************************************)
LoopDirectives == {Directive("T1", "medium", {}, {})}

NextLoop ==
    \/ StartLoop
    \/ StopLoop
    \/ GetLoopStatus
    \/ SendDirective(LoopDirectives)
    \/ AddSubmission
    \/ AddReview

SpecLoop == Init /\ [][NextLoop]_vars

(***************************************************************************)
(* The plan operations                                                     *)
(***************************************************************************)
\* What the plan operations leave alone, apart from the clock.
planFrame == <<taskStores, missions, loops, aside>>

\* ProjectPlanManager.createProjectPlan; tool handler create_project_plan
\* with the empty phase list.
CreateProjectPlan(phaseInputs) ==
    \E phases \in phaseInputs :
        /\ now \in PlanIds
        /\ plans' = createProjectPlan(plans, phases, FALSE, now)
        /\ lastOp' = Op("createPlan", now, "", "ok")
        /\ AfterSave("plans", TRUE)
        /\ UNCHANGED <<planFrame, now>>

\* The ad-hoc branch of the tool handler init, taken when no plan is active:
\* pauseCurrentPlan, then createAdHocMission.
CreateAdHocMission ==
    /\ now \in PlanIds
    /\ getActivePlan(plans) = NoPlan
    /\ plans' = createProjectPlan(pauseCurrentPlan(plans), <<AdHocPhase>>, TRUE, now)
    /\ lastOp' = Op("createAdHocMission", now, "", "ok")
    /\ AfterSave("plans", TRUE)
    /\ UNCHANGED <<planFrame, now>>

\* ProjectPlanManager.updatePlanProgress with currentPhaseComplete: throws
\* for an unknown plan.
AdvancePhase ==
    \E id \in PlanIds :
        /\ IF id \in DOMAIN plans
           THEN /\ plans[id].currentPhase < MaxPhaseIndex
                /\ plans' = updatePlanProgress(plans, id, TRUE)
                /\ lastOp' = Op("advancePhase", id, "", "ok")
           ELSE /\ plans' = plans
                /\ lastOp' = Op("advancePhase", id, "", "not_found")
        /\ AfterSave("plans", id \in DOMAIN plans)
        /\ UNCHANGED <<planFrame, now>>

\* ProjectPlanManager.adjustPlan: throws for an unknown plan.
AdjustPlan ==
    \E id \in PlanIds :
        /\ IF id \in DOMAIN plans
           THEN \E adj \in Adjustments(plans[id].phases) :
                /\ adj.type = "add_phase" => Len(plans[id].phases) < MaxPhases
                /\ plans' = adjustPlan(plans, id, adj)
                /\ lastOp' = Op("adjustPlan", id, adj.type, "ok")
           ELSE /\ plans' = plans
                /\ lastOp' = Op("adjustPlan", id, "", "not_found")
        /\ AfterSave("plans", id \in DOMAIN plans)
        /\ UNCHANGED <<planFrame, now>>

\* Tool handler update_plan_progress: the active plan is adjusted, if
\* adjustments are passed, and then updated; it throws without an active plan.
UpdatePlanProgressTool ==
    LET id == getActivePlan(plans) IN
    /\ IF id = NoPlan
       THEN /\ plans' = plans
            /\ lastOp' = Op("updatePlan", id, "", "no_active_plan")
       ELSE \E phaseComplete \in BOOLEAN, adjusts \in BOOLEAN :
            /\ phaseComplete => plans[id].currentPhase < MaxPhaseIndex
            /\ IF adjusts
               THEN \E adj \in Adjustments(plans[id].phases) :
                    /\ adj.type = "add_phase" => Len(plans[id].phases) < MaxPhases
                    /\ plans' = updatePlanProgress(adjustPlan(plans, id, adj),
                                                   id, phaseComplete)
               ELSE plans' = updatePlanProgress(plans, id, phaseComplete)
            /\ lastOp' = Op("updatePlan", id,
                            IF phaseComplete THEN "phaseComplete" ELSE "", "ok")
    /\ AfterSave("plans", id # NoPlan)
    /\ UNCHANGED <<planFrame, now>>

\* ProjectPlanManager.getNextPhase.
GetNextPhase ==
    \E id \in PlanIds :
        /\ lastOp' = Op("getNextPhase", id, "", getNextPhase(plans, id))
        /\ UNCHANGED <<plans, unparseable, planFrame, now>>

\* ProjectPlanManager.pauseCurrentPlan.
PauseCurrentPlan ==
    /\ plans' = pauseCurrentPlan(plans)
    /\ lastOp' = Op("pausePlan", getActivePlan(plans), "", "ok")
    /\ AfterSave("plans", getActivePlan(plans) # NoPlan)
    /\ UNCHANGED <<planFrame, now>>

\* ProjectPlanManager.resumePlan.
ResumePlan ==
    \E id \in PlanIds :
        /\ plans' = resumePlan(plans, id)
        /\ lastOp' = Op("resumePlan", id, "",
                        IF id \in DOMAIN plans THEN "ok" ELSE "not_found")
        /\ AfterSave("plans", id \in DOMAIN plans)
        /\ UNCHANGED <<planFrame, now>>

(***************************************************************************)
(* Specification of the plan manager: every ProjectPlanManager operation   *)
(* on the plan made at one clock value.                                    *)
(***************************************************************************)
NextPlan ==
    \/ CreateProjectPlan(PlanPhaseInputs)
    \/ AdvancePhase
    \/ AdjustPlan
    \/ GetNextPhase
    \/ PauseCurrentPlan
    \/ ResumePlan

SpecPlan == Init /\ [][NextPlan]_vars

(***************************************************************************)
(* Specification of the plan tools: the plan operations as the tool        *)
(* handlers make them.                                                     *)
(***************************************************************************)
NextPlanTools ==
    \/ CreateProjectPlan({<<>>})
    \/ CreateAdHocMission
    \/ UpdatePlanProgressTool
    \/ Tick

SpecPlanTools == Init /\ [][NextPlanTools]_vars

(***************************************************************************)
(* Concurrent calls on the task store                                      *)
(*                                                                         *)
(* Each agent's client runs its own server process over the same data      *)
(* directory, and inside one process a handler gives way at every await.   *)
(* addSubmission awaits loadTasks, changes the object it got, and awaits   *)
(* saveTasks: between the two another call can load or save.               *)
(***************************************************************************)
\* What the steps of a call in flight leave alone, apart from the clock.
callFrame == <<missions, loops, plans, workflows>>

\* First half of addSubmission for an agent that has no call in flight:
\* loadTasks returns the content of tasks.json at this moment.
LoadForSubmission ==
    \E agent \in Agents, id \in SelectIds :
        /\ agent \notin DOMAIN inflight
        /\ inflight' = Put(inflight, agent, [taskId |-> id, tasks |-> tasks,
                                             order |-> order])
        /\ lastOp' = Op("submitWorkLoad", id, agent, "ok")
        /\ UNCHANGED <<taskStores, unparseable, callFrame, now>>

\* Second half of addSubmission: it throws for a task the loaded object does
\* not hold, and else saves the loaded object with its own change.
SaveSubmission ==
    \E agent \in DOMAIN inflight :
        LET call == inflight[agent]
            found == call.taskId \in DOMAIN call.tasks
        IN  /\ tasks' = IF found THEN addSubmission(call.tasks, call.taskId) ELSE tasks
            /\ order' = IF found THEN call.order ELSE order
            /\ inflight' = [a \in DOMAIN inflight \ {agent} |-> inflight[a]]
            /\ lastOp' = Op("submitWorkSave", call.taskId, agent,
                            IF found THEN "ok" ELSE "not_found")
            /\ AfterSave("tasks", found)
            /\ UNCHANGED <<callFrame, now>>

(***************************************************************************)
(* Specification of concurrent submissions: two agents, two tasks without  *)
(* dependencies.                                                           *)
(***************************************************************************)
ConcurrentDirectives == {Directive(id, "medium", {}, {}) : id \in SelectIds}

NextConcurrent ==
    \/ SendDirective(ConcurrentDirectives)
    \/ LoadForSubmission
    \/ SaveSubmission

SpecConcurrent == Init /\ [][NextConcurrent]_vars

(***************************************************************************)
(* AutonomousEngine: missions started through the tool create_mission      *)
(***************************************************************************)
\* startMission: the mission is created and a workflow is registered for it.
\* The first work cycle is started without being awaited.
startWorkflow(ws, m) == Put(ws, m, [status |-> "active", iterations |-> 0])

\* Variant of workflowAfterCycle that schedules the next cycle whatever the
\* check says.
workflowAfterCycle_NeverCompletes(ws, m, shouldContinue) ==
    [ws EXCEPT ![m].iterations = @ + 1]

\* The workflow after a work cycle: completed when the check says not to
\* continue, else left active with the next cycle scheduled by setTimeout.
workflowAfterCycle(ws, m, shouldContinue) ==
    IF shouldContinue THEN [ws EXCEPT ![m].iterations = @ + 1]
    ELSE [ws EXCEPT ![m].status = "completed"]

\* Tool handler create_mission -> AutonomousEngine.startMission.
StartMission ==
    \E maxIt \in MissionMaxIterationInputs :
        /\ missions' = createMission(missions, maxIt, now)
        /\ workflows' = startWorkflow(workflows, now)
        /\ lastOp' = Op("startMission", now, "", "ok")
        /\ AfterSave("missions", TRUE)
        /\ UNCHANGED <<taskStores, loops, plans, inflight, now>>

\* startWorkCycle, run by startMission without await and then by the timer
\* it sets itself every pollingInterval: no caller is involved.  It returns
\* at once for a workflow that is not active, else checks the mission's
\* progress, which counts an iteration.  A cycle that would schedule the next
\* one is not explored beyond MaxChecks iterations.
WorkCycle ==
    \E m \in DOMAIN workflows :
        /\ workflows[m].status = "active"
        /\ \/ missions[m].iterations < MaxChecks
           \/ ~ShouldContinue(checkMissionProgress(missions, m, tasks, now)[m])
        /\ missions' = checkMissionProgress(missions, m, tasks, now)
        /\ workflows' = workflowAfterCycle(workflows, m, ShouldContinue(missions'[m]))
        /\ lastOp' = Op("workCycle", m, "", "ok")
        /\ AfterSave("missions", TRUE)
        /\ UNCHANGED <<taskStores, loops, plans, inflight, now>>

(***************************************************************************)
(* Specification of the engine: the mission started by create_mission at   *)
(* one clock value, its work cycles, and the mission operations of callers.*)
(***************************************************************************)
NextEngine ==
    \/ StartMission
    \/ WorkCycle
    \/ CheckMissionProgress
    \/ UpdateMissionStatus

SpecEngine == Init /\ [][NextEngine]_vars

(***************************************************************************)
(* Specification of one engine run: a single create_mission, the timer     *)
(* firing for as long as a cycle is scheduled.                             *)
(***************************************************************************)
\* The empty stores; every operation of this specification names a mission,
\* and lastOp.id is a mission id from the start.
InitEngineRun ==
    /\ tasks = <<>>
    /\ order = <<>>
    /\ missions = <<>>
    /\ loops = <<>>
    /\ plans = <<>>
    /\ inflight = <<>>
    /\ workflows = <<>>
    /\ unparseable = {}
    /\ now = 1
    /\ lastOp = Op("init", NoMission, "", "ok")

NextEngineRun ==
    \/ (now \notin DOMAIN workflows /\ StartMission)
    \/ WorkCycle
    \/ UpdateMissionStatus

\* The timer fires: a scheduled cycle does run.  A cycle always changes the
\* mission store, which is what the fairness condition looks at.
SpecEngineRun == InitEngineRun /\ [][NextEngineRun]_vars /\ WF_missions(WorkCycle)

(***************************************************************************)
(* Specification of the availability pass: it is applied, by the two       *)
(* operations that recompute every task, to any store of two tasks: every  *)
(* status, each task with or without the other as dependency and with or   *)
(* without a blocker.                                                      *)
(***************************************************************************)
TaskStatuses ==
    {"pending", "blocked", "available", "in_progress", "in_review",
     "needs_revision", "completed"}

StoredTask(st, deps, blk) ==
    [status |-> st, priority |-> "medium", dependsOn |-> deps, blockedBy |-> blk,
     createdAt |-> 1, completedAt |-> IF st = "completed" THEN 1 ELSE NoTime]

StoredTasks(id) ==
    {StoredTask(st, deps, blk) :
        st \in TaskStatuses,
        deps \in SUBSET (SelectIds \ {id}),
        blk \in SUBSET BlockerIds}

InitRecompute ==
    /\ tasks \in {ts \in [SelectIds -> UNION {StoredTasks(id) : id \in SelectIds}] :
                    \A id \in SelectIds : ts[id] \in StoredTasks(id)}
    /\ order = <<"T1", "T2">>
    /\ missions = <<>>
    /\ loops = <<>>
    /\ plans = <<>>
    /\ inflight = <<>>
    /\ workflows = <<>>
    /\ unparseable = {}
    /\ now = 1
    /\ lastOp = Op("init", "", "", "ok")

NextRecompute ==
    \/ GetNextWorkableTask
    \/ GetPendingTasks

SpecRecompute == InitRecompute /\ [][NextRecompute]_vars

(***************************************************************************)
(* checkMissionProgress with the result of the acceptance evaluation as an *)
(* input: the result checkAcceptanceCriteria gives, and a result with      *)
(* allMet true, the case the branch on criteriaCheck.allMet is written for.*)
(***************************************************************************)
EvaluatorResults ==
    {[allMet |-> FALSE, requiresEvaluation |-> TRUE],
     [allMet |-> TRUE, requiresEvaluation |-> FALSE]}

\* missions.json when the final save of checkMissionProgress runs: with all
\* criteria met, updateMissionStatus has loaded the file again, set the status
\* and saved.
StoreBeforeSaveWith(ms, m, ts, t, criteriaCheck) ==
    IF AllTasksDone(ms, m, ts) /\ criteriaCheck.allMet
    THEN updateMissionStatus(ms, m, "completed", t)
    ELSE ms

\* The final save writes the missions object loaded at the start of the call,
\* with the iteration counted, in place of the file's content.
checkMissionProgressWith(ms, m, ts, t, criteriaCheck) ==
    LET stored == StoreBeforeSaveWith(ms, m, ts, t, criteriaCheck)
        loaded == [ms EXCEPT ![m].iterations = @ + 1]
    IN  [x \in DOMAIN stored |-> loaded[x]]

\* What the call returns: mission is the object loaded at the start.
CheckResultWith(ms, m, ts, after, criteriaCheck) ==
    [progress |-> Progress(ms, m, ts),
     requiresEvaluation |-> /\ AllTasksDone(ms, m, ts)
                            /\ ~criteriaCheck.allMet
                            /\ criteriaCheck.requiresEvaluation,
     shouldContinue |-> ShouldContinue([ms EXCEPT ![m].iterations = @ + 1][m])]

EvaluatedCheck ==
    \E m \in DOMAIN missions, criteriaCheck \in EvaluatorResults :
        /\ missions[m].iterations < MaxChecks
        /\ missions' = checkMissionProgressWith(missions, m, tasks, now, criteriaCheck)
        /\ lastOp' = Op("checkProgress", m,
                        IF criteriaCheck.allMet THEN "all_met" ELSE "pending_evaluation",
                        CheckResultWith(missions, m, tasks, missions', criteriaCheck))
        /\ AfterSave("missions", TRUE)
        /\ UNCHANGED <<taskStores, loops, plans, aside, now>>

NextEvaluator ==
    \/ CreateMission
    \/ AddTaskToMission
    \/ EvaluatedCheck
    \/ SendDirective(MissionDirectives)
    \/ AddReview

SpecEvaluator == Init /\ [][NextEvaluator]_vars

(***************************************************************************)
(* Concurrent calls on the mission store                                   *)
(*                                                                         *)
(* checkMissionProgress awaits loadMissions, then the task reads, and      *)
(* awaits saveMissions at the end: between the two another call on the     *)
(* mission store, from a tool handler or the engine, can run to completion.*)
(***************************************************************************)
\* First part of checkMissionProgress on a mission that has no check in
\* flight: loadMissions returns the content of missions.json at this moment.
LoadForCheck ==
    \E m \in DOMAIN missions :
        /\ m \notin DOMAIN inflight
        /\ missions[m].iterations < MaxChecks
        /\ inflight' = Put(inflight, m, [missionId |-> m, missions |-> missions])
        /\ lastOp' = Op("checkProgressLoad", m, "", "ok")
        /\ UNCHANGED <<taskStores, missions, loops, plans, workflows, unparseable, now>>

\* Last part of checkMissionProgress: the loaded object is saved with the
\* iteration counted.
SaveCheck ==
    \E m \in DOMAIN inflight :
        LET call == inflight[m] IN
        /\ missions' = checkMissionProgress(call.missions, call.missionId, tasks, now)
        /\ inflight' = [x \in DOMAIN inflight \ {m} |-> inflight[x]]
        /\ lastOp' = Op("checkProgressSave", call.missionId, "", "ok")
        /\ AfterSave("missions", TRUE)
        /\ UNCHANGED <<taskStores, loops, plans, workflows, now>>

(***************************************************************************)
(* Specification of a progress check running while other calls change the  *)
(* mission store.                                                          *)
(***************************************************************************)
NextMissionRace ==
    \/ CreateMission
    \/ AddTaskToMission
    \/ UpdateMissionStatus
    \/ LoadForCheck
    \/ SaveCheck

SpecMissionRace == Init /\ [][NextMissionRace]_vars

(***************************************************************************)
(* Reads of the task store running while other calls change it             *)
(*                                                                         *)
(* getNextWorkableTask and getPendingTasks await loadTasks, recompute the   *)
(* availability of the loaded tasks and await saveTasks before they answer: *)
(* a read writes the whole file.                                           *)
(***************************************************************************)
Reads == {"selectNextTask", "listTasks"}

\* First part of a read, one in flight at a time: loadTasks returns the
\* content of tasks.json at this moment.
LoadForRead ==
    \E read \in Reads :
        /\ inflight = <<>>
        /\ inflight' = Put(inflight, read, [tasks |-> tasks, order |-> order])
        /\ lastOp' = Op("readLoad", "", read, "ok")
        /\ UNCHANGED <<taskStores, unparseable, callFrame, now>>

\* Second part: the loaded tasks are recomputed and saved.
SaveRead ==
    \E read \in DOMAIN inflight :
        LET call == inflight[read] IN
        /\ tasks' = updateTaskAvailability(call.tasks, DOMAIN call.tasks)
        /\ order' = call.order
        /\ inflight' = [x \in DOMAIN inflight \ {read} |-> inflight[x]]
        /\ lastOp' = Op("readSave", "", read, "ok")
        /\ AfterSave("tasks", TRUE)
        /\ UNCHANGED <<callFrame, now>>

NextReadRace ==
    \/ SendDirective(ConcurrentDirectives)
    \/ AddSubmission
    \/ AddReview
    \/ LoadForRead
    \/ SaveRead

SpecReadRace == Init /\ [][NextReadRace]_vars

(***************************************************************************)
(* Store files that cannot be parsed                                       *)
(***************************************************************************)
Stores == {"tasks", "missions", "plans", "loops"}

\* The content of a store file is damaged from outside.  loadTasks,
\* loadMissions and loadPlans catch the JSON.parse error and return {}, on
\* every call; loadStates does the same when the server starts on the
\* damaged loop-states.json.  From then on the program sees an empty store.
DamageStore ==
    \E s \in Stores :
        /\ s \notin unparseable
        /\ unparseable' = unparseable \cup {s}
        /\ tasks' = IF s = "tasks" THEN <<>> ELSE tasks
        /\ order' = IF s = "tasks" THEN <<>> ELSE order
        /\ missions' = IF s = "missions" THEN <<>> ELSE missions
        /\ plans' = IF s = "plans" THEN <<>> ELSE plans
        /\ loops' = IF s = "loops" THEN <<>> ELSE loops
        /\ lastOp' = Op("fileDamaged", s, "", "ok")
        /\ UNCHANGED <<aside, now>>

(***************************************************************************)
(* Specification of damaged stores: one operation or two on each store,    *)
(* and damage to any store file at any time.                               *)
(***************************************************************************)
NextDamaged ==
    \/ DamageStore
    \/ SendDirective(LoopDirectives)
    \/ AddSubmission
    \/ CreateMission
    \/ CreateProjectPlan({<<>>})
    \/ StartLoop

SpecDamaged == Init /\ [][NextDamaged]_vars

(***************************************************************************)
(* Properties of the task graph                                            *)
(***************************************************************************)
\* Every id in dependsOn names a stored task that is completed.
AllDepsCompleted(ts, id) ==
    \A d \in ts[id].dependsOn : d \in DOMAIN ts /\ ts[d].status = "completed"

Started == {"completed", "in_review", "in_progress", "needs_revision"}

\* C1: in every state, a task is available if and only if all its
\* dependencies are completed, its blockedBy is empty and it is not itself
\* completed, in_review, in_progress or needs_revision.
C1_AvailableIff ==
    \A id \in DOMAIN tasks :
        tasks[id].status = "available"
        <=> /\ AllDepsCompleted(tasks, id)
            /\ tasks[id].blockedBy = {}
            /\ tasks[id].status \notin Started

\* The tasks selectNextTask may choose from when none is in progress.
Pool(ts) == {id \in DOMAIN ts : ts[id].status \in {"available", "needs_revision"}}

\* id is a best task of the pool: lowest priority rank, earliest createdAt
\* among those of that rank.
IsBest(ts, id) ==
    /\ id \in Pool(ts)
    /\ \A o \in Pool(ts) :
        \/ priorityOrder(ts[id].priority) < priorityOrder(ts[o].priority)
        \/ /\ priorityOrder(ts[id].priority) = priorityOrder(ts[o].priority)
           /\ ts[id].createdAt <= ts[o].createdAt

\* C2: selectNextTask returns an in_progress task if one exists; otherwise the
\* available/needs_revision task of lowest priority rank, ties broken by
\* earliest createdAt; and none if there is no such task.
C2_SelectBest ==
    lastOp.op = "selectNextTask" =>
        IF \E id \in DOMAIN tasks : tasks[id].status = "in_progress"
        THEN lastOp.ret \in DOMAIN tasks /\ tasks[lastOp.ret].status = "in_progress"
        ELSE IF Pool(tasks) = {} THEN lastOp.ret = "none"
        ELSE lastOp.ret \in DOMAIN tasks /\ IsBest(tasks, lastOp.ret)

\* The step is a successful review(a, approved).
ApprovalOf(a) ==
    /\ lastOp'.op = "review"
    /\ lastOp'.id = a
    /\ lastOp'.arg = "approved"
    /\ lastOp'.ret = "ok"

\* C3: after review(A, approved), A is completed with completedAt set, and in
\* that same state every other task that was blocked, has an empty blockedBy
\* and whose dependencies are now all completed is available.
C3_ApprovalCascades ==
    [][\A a \in TaskIds : ApprovalOf(a) =>
        /\ tasks'[a].status = "completed"
        /\ tasks'[a].completedAt # NoTime
        /\ \A b \in DOMAIN tasks \ {a} :
            (/\ tasks[b].status = "blocked"
             /\ tasks'[b].blockedBy = {}
             /\ AllDepsCompleted(tasks', b))
            => tasks'[b].status = "available"]_vars

\* A state right after an approval that left a dependent of the approved task
\* available.
C3_Witness ==
    /\ lastOp.op = "review" /\ lastOp.arg = "approved" /\ lastOp.ret = "ok"
    /\ tasks[lastOp.id].status = "completed"
    /\ tasks[lastOp.id].completedAt # NoTime
    /\ \E b \in DOMAIN tasks :
        /\ lastOp.id \in tasks[b].dependsOn
        /\ Cardinality(tasks[b].dependsOn) = 2
        /\ tasks[b].status = "available"

\* C4: approving A changes the status of no task other than A and the tasks
\* that depend on A, changes those only from blocked to available, and leaves
\* every completed task completed.
C4_ApprovalFrame ==
    [][\A a \in TaskIds : ApprovalOf(a) =>
        \A b \in DOMAIN tasks \ {a} :
            /\ tasks'[b].status # tasks[b].status =>
                /\ a \in tasks[b].dependsOn
                /\ tasks[b].status = "blocked"
                /\ tasks'[b].status = "available"
            /\ tasks[b].status = "completed" => tasks'[b].status = "completed"]_vars

CheckOf(m) ==
    /\ lastOp'.op = "checkProgress"
    /\ lastOp'.id = m
    /\ m \in DOMAIN missions

\* C6: every checkProgress on an existing mission increases its iteration by
\* exactly 1 whatever its status, and shouldContinue is false exactly when
\* afterwards the status is not active or iteration >= maxIterations.
C6_CheckCountsAndContinues ==
    [][\A m \in MissionIds : CheckOf(m) =>
        /\ missions'[m].iterations = missions[m].iterations + 1
        /\ lastOp'.ret.shouldContinue = FALSE
            <=> \/ missions'[m].status # "active"
                \/ missions'[m].iterations >= missions'[m].maxIterations]_vars

\* The second check of a mission with maxIterations = 2 has returned
\* shouldContinue = false.
C6_Witness ==
    /\ lastOp.op = "checkProgress"
    /\ lastOp.id \in DOMAIN missions
    /\ missions[lastOp.id].status = "active"
    /\ missions[lastOp.id].maxIterations = 2
    /\ missions[lastOp.id].iterations = 2
    /\ lastOp.ret.shouldContinue = FALSE

\* The mission has members and each is a stored, completed task.
MembersAllCompleted(m) ==
    /\ Len(missions[m].tasks) > 0
    /\ \A i \in 1..Len(missions[m].tasks) :
        /\ missions[m].tasks[i] \in DOMAIN tasks
        /\ tasks[missions[m].tasks[i]].status = "completed"

PollOf(a) == lastOp'.op = "poll" /\ lastOp'.id = a /\ a \in DOMAIN loops

StoppedByMax(l) == ~l.isActive /\ l.stopReason = "Max iterations reached"

\* C8: for every agent's loop state, in every reachable state and for any
\* start parameters, currentIteration <= maxIterations; and whenever
\* currentIteration = maxIterations the loop is inactive and stays inactive
\* on every later poll and stop.
C8_IterationBounded ==
    /\ [](\A a \in DOMAIN loops :
            /\ loops[a].currentIteration <= loops[a].maxIterations
            /\ loops[a].currentIteration = loops[a].maxIterations => ~loops[a].isActive)
    /\ [][\A a \in DOMAIN loops :
            (/\ lastOp'.op \in {"poll", "stop"}
             /\ loops[a].currentIteration = loops[a].maxIterations
             /\ ~loops[a].isActive) => ~loops'[a].isActive]_vars

\* C9: a start leaves the loop active at iteration 0; each poll of an active
\* loop adds exactly 1 to currentIteration; the loop is still active while
\* the count is below maxIterations, and the poll that reaches maxIterations
\* makes it inactive with the stop reason of reaching the maximum; no other
\* operation changes the count.
C9_PollCountsToMax ==
    [][\A a \in Agents :
        /\ (lastOp'.op = "start" /\ lastOp'.id = a) =>
              loops'[a].currentIteration = 0 /\ loops'[a].isActive
        /\ (PollOf(a) /\ loops[a].isActive) =>
              /\ loops'[a].currentIteration = loops[a].currentIteration + 1
              /\ loops'[a].maxIterations = loops[a].maxIterations
              /\ loops'[a].isActive =
                    (loops'[a].currentIteration < loops[a].maxIterations)
              /\ ~loops'[a].isActive => StoppedByMax(loops'[a])
        /\ (a \in DOMAIN loops /\ ~(lastOp'.op \in {"start", "poll"} /\ lastOp'.id = a)) =>
              loops'[a].currentIteration = loops[a].currentIteration
      ]_vars

\* A loop started with maxIterations 2 has been stopped by its second poll.
C9_Witness ==
    /\ lastOp.op = "poll"
    /\ lastOp.id \in DOMAIN loops
    /\ loops[lastOp.id].maxIterations = 2
    /\ loops[lastOp.id].currentIteration = 2
    /\ StoppedByMax(loops[lastOp.id])

\* C10: a poll for an agent whose loop has become inactive by reaching its
\* maximum leaves that agent's loop state unchanged and returns the snapshot
\* of that state again.
C10_PollAfterMaxIsNoOp ==
    [][\A a \in Agents :
        (PollOf(a) /\ StoppedByMax(loops[a])) =>
            /\ loops'[a] = loops[a]
            /\ lastOp'.ret = Snapshot(loops[a])
      ]_vars

\* A poll has been answered for a loop that an earlier poll had stopped.
C10_Witness ==
    /\ lastOp.op = "poll"
    /\ lastOp.arg = "stopped"
    /\ lastOp.id \in DOMAIN loops
    /\ StoppedByMax(loops[lastOp.id])

\* C11: after a stop with a reason on an existing loop, the loop is inactive
\* and its stopReason is the reason given to the stop, also when the loop had
\* reached its maximum of iterations.
C11_StopRecordsReason ==
    [][\A a \in Agents :
        (lastOp'.op = "stop" /\ lastOp'.id = a /\ a \in DOMAIN loops) =>
            /\ ~loops'[a].isActive
            /\ loops'[a].stopReason = lastOp'.arg
      ]_vars

(***************************************************************************)
(* Properties of the task operations' error handling                       *)
(***************************************************************************)
\* C18: addTask with an id that is already stored fails with a validation
\* error and leaves the stored task and every other task unchanged.
C18_DuplicateIdRejected ==
    [][(lastOp'.op = "addTask" /\ lastOp'.id \in DOMAIN tasks) =>
          /\ tasks' = tasks
          /\ lastOp'.ret = "ValidationError"
      ]_vars

\* C19: addBatch with two directives of the same id is rejected and leaves
\* the task store unchanged.
C19_BatchDuplicateRejected ==
    [][(lastOp'.op = "addBatch" /\ lastOp'.arg = "duplicate_ids") =>
          /\ tasks' = tasks
          /\ lastOp'.ret # "ok"
      ]_vars

\* C20: markInProgress moves an available or needs_revision task to
\* in_progress, and on a task in any other status it fails with an invalid
\* transition and leaves the task unchanged.
C20_MarkInProgressChecksStatus ==
    [][(lastOp'.op = "markInProgress" /\ lastOp'.id \in DOMAIN tasks) =>
          IF tasks[lastOp'.id].status \in {"available", "needs_revision"}
          THEN tasks'[lastOp'.id].status = "in_progress"
          ELSE /\ tasks'[lastOp'.id] = tasks[lastOp'.id]
               /\ lastOp'.ret = "InvalidTransition"
      ]_vars

\* C21: a review of a task that has no pending submission (its status is not
\* in_review) is rejected as an invalid transition and changes nothing.
C21_ReviewNeedsSubmission ==
    [][(/\ lastOp'.op = "review"
        /\ lastOp'.id \in DOMAIN tasks
        /\ tasks[lastOp'.id].status # "in_review") =>
          /\ tasks' = tasks
          /\ lastOp'.ret = "InvalidTransition"
      ]_vars

\* C22: an operation that names a task id reports not found when the id is
\* unknown and leaves the store unchanged; it never returns successfully
\* without having acted.
C22_UnknownIdReported ==
    [][(/\ lastOp'.op \in {"submitWork", "review", "markInProgress",
                           "markTaskComplete"}
        /\ lastOp'.id \notin DOMAIN tasks) =>
          /\ tasks' = tasks
          /\ lastOp'.ret = "not_found"
      ]_vars

(***************************************************************************)
(* Properties of the project plans                                         *)
(***************************************************************************)
AdvanceOf(id) == lastOp'.op = "advancePhase" /\ lastOp'.id = id /\ id \in DOMAIN plans

\* C12: a plan is created at phase 0 and only advancePhase moves its phase
\* index, by one per call; each call on a plan with a phase left appends that
\* phase to the completed-phase log; the plan becomes completed by the call
\* that finishes its last phase and not by an earlier one; and getNextPhase
\* returns none for a completed plan.
C12_AdvanceCompletesPlan ==
    [][\A id \in PlanIds :
        /\ (lastOp'.op = "createPlan" /\ lastOp'.id = id) =>
              plans'[id].currentPhase = 0 /\ plans'[id].status = "active"
        /\ (AdvanceOf(id) /\ plans[id].currentPhase < Len(plans[id].phases)) =>
              /\ plans'[id].currentPhase = plans[id].currentPhase + 1
              /\ plans'[id].completedPhases =
                    Append(plans[id].completedPhases,
                           [phaseIndex |-> plans[id].currentPhase,
                            phase |-> plans[id].phases[plans[id].currentPhase + 1]])
              /\ IF plans'[id].currentPhase = Len(plans[id].phases)
                 THEN plans'[id].status = "completed"
                 ELSE plans'[id].status = plans[id].status
        /\ (id \in DOMAIN plans /\ lastOp'.op \notin {"createPlan", "advancePhase"}) =>
              plans'[id].currentPhase = plans[id].currentPhase
        /\ (lastOp'.op = "getNextPhase" /\ lastOp'.id = id /\ id \in DOMAIN plans
              /\ plans[id].status = "completed") => lastOp'.ret = "none"
      ]_vars

\* The second advancePhase has completed a plan of two phases.
C12_Witness ==
    /\ lastOp.op = "advancePhase"
    /\ lastOp.id \in DOMAIN plans
    /\ Len(plans[lastOp.id].phases) = 2
    /\ plans[lastOp.id].currentPhase = 2
    /\ Len(plans[lastOp.id].completedPhases) = 2
    /\ plans[lastOp.id].status = "completed"

\* C13: across createPlan, advancePhase, adjustPlan, pause and resume, the
\* phase index of a plan never decreases, and a plan has status completed
\* exactly in the states where its phase index equals the number of its
\* phases, plans created without phases and plans whose phase list was
\* adjusted included.
C13_CompletedIffAtEnd ==
    /\ [](\A id \in DOMAIN plans :
            plans[id].status = "completed"
                <=> plans[id].currentPhase = Len(plans[id].phases))
    /\ [][\A id \in DOMAIN plans :
            lastOp'.op # "createPlan" =>
                plans'[id].currentPhase >= plans[id].currentPhase]_vars

\* C14: at most one plan has status active in any state reached through the
\* plan tools.
C14_OneActivePlan ==
    Cardinality({id \in DOMAIN plans : plans[id].status = "active"}) <= 1

(***************************************************************************)
(* Properties of concurrent calls                                          *)
(***************************************************************************)
\* C15: when a submitWork call completes, the store holds its effect and
\* still holds what the calls completed before it have written: every task
\* other than the submitted one is as it was in the store just before the
\* save, and no task has gone.
C15_NoLostUpdate ==
    [][(lastOp'.op = "submitWorkSave" /\ lastOp'.ret = "ok") =>
          /\ tasks'[lastOp'.id].status = "in_review"
          /\ DOMAIN tasks' = DOMAIN tasks
          /\ \A id \in DOMAIN tasks \ {lastOp'.id} : tasks'[id] = tasks[id]
      ]_vars

(***************************************************************************)
(* Properties of the engine                                                *)
(***************************************************************************)
\* C16: nothing runs by itself between calls: the iteration counter of a
\* mission goes up only in a step that is a caller's checkProgress on that
\* mission.
C16_NoBackgroundExecution ==
    [][\A m \in DOMAIN missions :
        (m \in DOMAIN missions' /\ missions'[m].iterations > missions[m].iterations)
            => (lastOp'.op = "checkProgress" /\ lastOp'.id = m)
      ]_vars

(***************************************************************************)
(* Properties of damaged stores                                            *)
(***************************************************************************)
\* The store an operation works on.
StoreOf(op) ==
    CASE op \in {"addTask", "submitWork"} -> "tasks"
      [] op = "createMission" -> "missions"
      [] op = "createPlan" -> "plans"
      [] op = "start" -> "loops"
      [] OTHER -> "none"

\* C17: an operation on a store whose file is present but unparseable fails
\* with an error that is not the one of an absent record, and the file stays
\* as it is: it is not treated as empty and not overwritten.
C17_UnparseableStoreFails ==
    [][\A s \in unparseable :
        StoreOf(lastOp'.op) = s =>
            /\ s \in unparseable'
            /\ lastOp'.ret \notin {"ok", "not_found"}
      ]_vars

(***************************************************************************)
(* Properties of mission membership                                        *)
(***************************************************************************)
NoDuplicates(s) == Cardinality(Range(s)) = Len(s)

\* C23: addTaskToMission is idempotent: a mission's task list never holds a
\* task id twice, and a call with a task id the mission already has leaves the
\* store unchanged; createMission stores an active mission with iteration 0
\* and an empty task list.
C23_AddTaskToMissionIdempotent ==
    [][/\ \A m \in DOMAIN missions' : NoDuplicates(missions'[m].tasks)
       /\ (/\ lastOp'.op = "addTaskToMission"
           /\ lastOp'.id \in DOMAIN missions
           /\ lastOp'.arg \in Range(missions[lastOp'.id].tasks)) =>
             missions' = missions
       /\ lastOp'.op = "createMission" =>
             /\ lastOp'.id \in DOMAIN missions'
             /\ missions'[lastOp'.id].status = "active"
             /\ missions'[lastOp'.id].iterations = 0
             /\ missions'[lastOp'.id].tasks = <<>>
      ]_vars

\* A mission holding T1 then T2 on which addTaskToMission was called with T1
\* again: the last call was a repeat, a first call appends at the end.
C23_Witness ==
    /\ lastOp.op = "addTaskToMission"
    /\ lastOp.ret = "ok"
    /\ lastOp.arg = "T1"
    /\ lastOp.id \in DOMAIN missions
    /\ missions[lastOp.id].tasks = <<"T1", "T2">>

(***************************************************************************)
(* Specification of the developer listing: tasks without dependencies, all *)
(* three priorities, submissions and reviews, all within one clock value.  *)
(***************************************************************************)
NextListing ==
    \/ SendDirective(SelectDirectives)
    \/ AddSubmission
    \/ AddReview
    \/ GetPendingTasks

SpecListing == Init /\ [][NextListing]_vars

(***************************************************************************)
(* Properties of the developer listing                                     *)
(***************************************************************************)
\* C24: the developer's task listing is sorted by priority: no entry comes
\* after an entry of strictly lower priority.
C24_ListingSortedByPriority ==
    (lastOp.op = "listTasks" /\ lastOp.arg = "developer") =>
        \A i, j \in 1..Len(lastOp.ret) :
            i < j => priorityOrder(tasks[lastOp.ret[i]].priority)
                        <= priorityOrder(tasks[lastOp.ret[j]].priority)

(***************************************************************************)
(* Properties of the work cycle                                            *)
(***************************************************************************)
\* Progress checks the work cycle of a workflow has made: one per cycle that
\* scheduled the next, and the one that completed it.
ChecksDone(w) == w.iterations + (IF w.status = "completed" THEN 1 ELSE 0)

\* The status of the workflow of mission m, "none" when there is none.
WorkflowStatus(m) == IF m \in DOMAIN workflows THEN workflows[m].status ELSE "none"

\* The mission's maxIterations is within the explored number of checks.
MissionWithinChecks(m) ==
    IF m \in DOMAIN missions THEN missions[m].maxIterations <= MaxChecks ELSE FALSE

C26_RecomputeIdempotent ==
    updateTaskAvailability(updateTaskAvailability(tasks, DOMAIN tasks), DOMAIN tasks)
        = updateTaskAvailability(tasks, DOMAIN tasks)

\* C27: the availability pass never changes the status of a task that is
\* needs_revision, in_progress, completed or in_review.
C27_RecomputeKeepsStarted ==
    [][lastOp'.op \in {"selectNextTask", "listTasks"} =>
          \A id \in DOMAIN tasks :
              tasks[id].status \in Started => tasks'[id].status = tasks[id].status
      ]_vars

C29_CheckKeepsConcurrentWrites ==
    [][(lastOp'.op = "checkProgressSave" /\ lastOp'.ret = "ok") =>
          /\ lastOp'.id \in DOMAIN missions
          /\ missions'[lastOp'.id].status = missions[lastOp'.id].status
          /\ missions'[lastOp'.id].tasks = missions[lastOp'.id].tasks
          /\ missions'[lastOp'.id].iterations = missions[lastOp'.id].iterations + 1
      ]_vars

(***************************************************************************)
(* Properties of reads running beside mutations                            *)
(***************************************************************************)
\* C30: a read interleaved with mutating operations never loses a mutation:
\* when the read completes, every stored task is still stored, and a task
\* that was submitted or completed still is.
C30_ReadKeepsMutations ==
    [][lastOp'.op = "readSave" =>
          \A id \in DOMAIN tasks :
              /\ id \in DOMAIN tasks'
              /\ tasks[id].status \in {"in_review", "completed"} =>
                    tasks'[id].status = tasks[id].status
      ]_vars

(***************************************************************************)
(* Properties of task completion                                           *)
(***************************************************************************)
\* C31: a task is put in review or completed only in a state where every id
\* in its dependsOn names a completed task and its blockedBy is empty.
C31_NoCompletionWhileBlocked ==
    [][lastOp'.op \in {"addTask", "submitWork", "review", "markInProgress"} =>
          \A id \in DOMAIN tasks :
              (/\ tasks[id].status \notin {"in_review", "completed"}
               /\ id \in DOMAIN tasks'
               /\ tasks'[id].status \in {"in_review", "completed"}) =>
                    /\ AllDepsCompleted(tasks, id)
                    /\ tasks[id].blockedBy = {}
      ]_vars

\* C32: completed is terminal and completedAt is set once: no submitWork,
\* review, markInProgress, recompute or repeated completion changes the
\* status or the completedAt of a completed task.
C32_CompletedIsTerminal ==
    [][lastOp'.op \in {"submitWork", "review", "markInProgress", "markTaskComplete",
                       "selectNextTask", "listTasks"} =>
          \A id \in DOMAIN tasks :
              tasks[id].status = "completed" =>
                  /\ tasks'[id].status = "completed"
                  /\ tasks'[id].completedAt = tasks[id].completedAt
      ]_vars

(***************************************************************************)
(* Concurrent polls of the developer                                       *)
(*                                                                         *)
(* The developer branch of get_loop_status awaits getPendingTasks and      *)
(* getNextWorkableTask, builds its answer from the task it was given and   *)
(* then awaits updateTaskStatus(taskId, 'in_progress'): between the        *)
(* selection and the mark another call can run.                            *)
(***************************************************************************)
\* The server processes through which the developer polls.
Pollers == {"poll1", "poll2"}

\* First part of the developer branch for a poller that has no poll in
\* flight: the two reads recompute and save the store, and the poll keeps
\* the task getNextWorkableTask returned.
SelectForPoll ==
    \E p \in Pollers :
        LET polled == PolledTasks(tasks, "claude") IN
        /\ p \notin DOMAIN inflight
        /\ tasks' = polled
        /\ inflight' = Put(inflight, p, [taskId |-> SelectFrom(polled, order)])
        /\ lastOp' = Op("pollSelect", SelectFrom(polled, order), p, "ok")
        /\ AfterSave("tasks", TRUE)
        /\ UNCHANGED <<order, callFrame, now>>

\* Second part: the task that was selected, if any, is marked in_progress in
\* the store as it is now.
MarkSelected ==
    \E p \in DOMAIN inflight :
        LET id == inflight[p].taskId IN
        /\ tasks' = IF id = "none" THEN tasks
                    ELSE updateTaskStatus(tasks, id, "in_progress")
        /\ inflight' = [x \in DOMAIN inflight \ {p} |-> inflight[x]]
        /\ lastOp' = Op("pollMark", id, p, "ok")
        /\ AfterSave("tasks", id \in DOMAIN tasks)
        /\ UNCHANGED <<order, callFrame, now>>

(***************************************************************************)
(* Specification of concurrent polls: two pollers, two tasks without       *)
(* dependencies, submissions and reviews.                                  *)
(***************************************************************************)
NextPollRace ==
    \/ SendDirective(ConcurrentDirectives)
    \/ AddSubmission
    \/ AddReview
    \/ SelectForPoll
    \/ MarkSelected

SpecPollRace == Init /\ [][NextPollRace]_vars

(***************************************************************************)
(* Properties of the single active slot                                    *)
(***************************************************************************)
InProgress(ts) == {id \in DOMAIN ts : ts[id].status = "in_progress"}

\* C33: at most one task has status in_progress in any reachable state, also
\* when two developer polls interleave their select and mark steps.
C33_SingleActiveSlot == Cardinality(InProgress(tasks)) <= 1

(***************************************************************************)
(* Mission decomposition                                                   *)
(*                                                                         *)
(* processAutonomousAction, for an action of type decompose_mission, calls *)
(* addDirective and addTaskToMission for each task of the action.  The     *)
(* task objects are passed on as the agent wrote them: they carry a taskId *)
(* and may carry dependsOn, and nothing gives them a status or createdAt.  *)
(***************************************************************************)
\* What reading the status of a task stored without one yields.
NoStatus == "undefined"

\* The tasks of a decompose_mission action.
DecompositionTasks ==
    {[taskId |-> "T1", dependsOn |-> {}]}
    \cup {[taskId |-> "T2", dependsOn |-> d] : d \in {{}, {"T1"}}}

\* The record addDirective stores for a task of the action.
DecomposedTask(d) ==
    [status |-> NoStatus, priority |-> "medium", dependsOn |-> d.dependsOn,
     blockedBy |-> {}, createdAt |-> NoTime, completedAt |-> NoTime]

\* The task store after the loop of decompose_mission; addTaskToMission
\* throws for an unknown mission, which ends the loop after the first
\* addDirective.
RECURSIVE decomposeTasks(_, _, _)
decomposeTasks(ts, batch, found) ==
    IF batch = <<>> THEN ts
    ELSE LET d == Head(batch)
             stored == updateTaskAvailability(Put(ts, d.taskId, DecomposedTask(d)),
                                              {d.taskId})
         IN  IF found THEN decomposeTasks(stored, Tail(batch), found) ELSE stored

\* The missions after the loop of decompose_mission on an existing mission.
RECURSIVE decomposeMembers(_, _, _)
decomposeMembers(ms, m, batch) ==
    IF batch = <<>> THEN ms
    ELSE decomposeMembers(addTaskToMission(ms, m, Head(batch).taskId), m, Tail(batch))

\* AutonomousEngine.processAutonomousAction with a decompose_mission action.
DecomposeMission ==
    \E m \in MissionIds, batch \in Batches(DecompositionTasks) :
        LET found == m \in DOMAIN missions IN
        /\ tasks' = decomposeTasks(tasks, batch, found)
        /\ order' = IF found THEN PutOrderAll(order, batch)
                    ELSE PutOrder(order, Head(batch).taskId)
        /\ missions' = IF found THEN decomposeMembers(missions, m, batch) ELSE missions
        /\ lastOp' = Op("decomposeMission", m, "",
                        IF found THEN "ok" ELSE "not_found")
        /\ unparseable' = (unparseable \ {"tasks"})
                            \ (IF missions' # missions THEN {"missions"} ELSE {})
        /\ UNCHANGED <<loops, plans, aside, now>>

(***************************************************************************)
(* Specification of the three ways a task is added: single directives,     *)
(* batches and mission decomposition, with the reads that recompute.       *)
(***************************************************************************)
DecomposeBatchDirectives ==
    {Directive("T1", "medium", {}, {}), Directive("T2", "medium", {"T1"}, {})}

NextDecompose ==
    \/ CreateMission
    \/ DecomposeMission
    \/ SendDirective(ConcurrentDirectives)
    \/ SendBatchDirectives(DecomposeBatchDirectives)
    \/ AddSubmission
    \/ AddReview
    \/ GetNextWorkableTask

SpecDecompose == Init /\ [][NextDecompose]_vars

(***************************************************************************)
(* Properties of the status domain                                         *)
(***************************************************************************)
\* C34: every stored task has one of the seven statuses, and a task that
\* addTask has just stored, through a single directive, a batch or a mission
\* decomposition, is available or blocked.
C34_StatusDomain ==
    [][/\ \A id \in DOMAIN tasks' : tasks'[id].status \in TaskStatuses
       /\ lastOp'.op \in {"addTask", "addBatch", "decomposeMission"} =>
            \A id \in DOMAIN tasks' :
                (id \notin DOMAIN tasks \/ tasks'[id] # tasks[id]) =>
                    tasks'[id].status \in {"available", "blocked"}
      ]_vars

(***************************************************************************)
(* Properties of the empty-check counter                                   *)
(***************************************************************************)
\* C35: every poll of an active loop sets consecutiveEmptyChecks to 0 when
\* work was found and adds exactly 1 to it otherwise, the poll that reaches
\* maxIterations included.
C35_EmptyChecksCounted ==
    [][\A a \in Agents :
        (PollOf(a) /\ loops[a].isActive) =>
            loops'[a].consecutiveEmptyChecks =
                IF WorkFound(PolledTasks(tasks, a), order, a) THEN 0
                ELSE loops[a].consecutiveEmptyChecks + 1
      ]_vars

(***************************************************************************)
(* Specification of the plan as the loop drives it: both agents poll, one  *)
(* task, the plan of an ad-hoc mission, a frozen clock.                    *)
(***************************************************************************)
NextPlanPoll ==
    \/ StartLoop
    \/ GetLoopStatus
    \/ CreateAdHocMission
    \/ SendDirective(LoopDirectives)
    \/ AddSubmission
    \/ AddReview

SpecPlanPoll == Init /\ [][NextPlanPoll]_vars

(***************************************************************************)
(* Properties of the phase gate                                            *)
(***************************************************************************)
\* No task is available, needs_revision, in_progress or in review.
NoWorkableTask(ts) ==
    ~\E id \in DOMAIN ts :
        ts[id].status \in {"available", "needs_revision", "in_progress", "in_review"}

\* C36: a plan's phase is advanced, and the task specs of the next phase are
\* proposed, only when no task is available, needs_revision, in_progress or
\* awaiting review.
C36_PhaseGate ==
    [][/\ \A id \in DOMAIN plans :
            (id \in DOMAIN plans' /\ plans'[id].currentPhase > plans[id].currentPhase)
                => NoWorkableTask(tasks')
       /\ \A a \in Agents :
            (/\ PollOf(a)
             /\ loops'[a].isActive
             /\ ProposedTasks(plans, PolledTasks(tasks, a), a) # {})
                => NoWorkableTask(tasks')
      ]_vars

(***************************************************************************)
(* Properties of plan adjustment                                           *)
(***************************************************************************)
\* The phases below currentPhase are the phases of the completed-phase log,
\* in order.
FinishedMatchesLog(plan) ==
    /\ plan.currentPhase <= Len(plan.phases)
    /\ Len(plan.completedPhases) = plan.currentPhase
    /\ \A i \in 1..plan.currentPhase : plan.completedPhases[i].phase = plan.phases[i]

\* C37: adjustPlan on an active plan whose finished phases are those of the
\* completed-phase log leaves them so, whether it inserts, modifies or
\* reorders.
C37_AdjustKeepsFinished ==
    [][\A id \in PlanIds :
        (/\ lastOp'.op = "adjustPlan"
         /\ lastOp'.id = id
         /\ id \in DOMAIN plans
         /\ plans[id].status = "active"
         /\ FinishedMatchesLog(plans[id])) => FinishedMatchesLog(plans'[id])
      ]_vars

(***************************************************************************)
(* The workflow of a developer and a reviewer who do their part            *)
(*                                                                         *)
(* Directives are sent once each and after the tasks they depend on, none  *)
(* with a blocker.  The developer polls with an active loop and submits    *)
(* the task in progress; the reviewer reviews what is in review.           *)
(***************************************************************************)
WorkflowIds == {"T1", "T2", "T3"}

WorkflowDirectives ==
    {Directive("T1", "medium", {}, {})}
    \cup {Directive("T2", p, d, {}) : p \in {"medium", "high"}, d \in {{}, {"T1"}}}
    \cup {Directive("T3", "medium", {"T1", "T2"}, {})}

\* The status of a task, "absent" for an id that is not stored.
StatusOf(id) == IF id \in DOMAIN tasks THEN tasks[id].status ELSE "absent"

\* Tool handler send_directive for a new id whose dependencies are stored.
SendWorkflowDirective ==
    \E d \in WorkflowDirectives :
        /\ d.taskId \notin DOMAIN tasks
        /\ d.dependsOn \subseteq DOMAIN tasks
        /\ SendDirective({d})

\* The developer branch of get_loop_status for a loop that stays active:
\* the reads recompute, and the task selected is marked in_progress.
DeveloperPoll ==
    /\ tasks' = TasksAfterPoll(tasks, order, "claude")
    /\ lastOp' = Op("developerPoll", SelectFrom(PolledTasks(tasks, "claude"), order),
                    "", "ok")
    /\ AfterSave("tasks", TRUE)
    /\ UNCHANGED <<order, now, otherStores>>

\* Tool handler submit_work for the task in progress: addSubmission, then
\* getNextWorkableTask, which recomputes and saves.
SubmitWork(id) ==
    /\ StatusOf(id) = "in_progress"
    /\ tasks' = LET submitted == addSubmission(tasks, id)
                IN  updateTaskAvailability(submitted, DOMAIN submitted)
    /\ lastOp' = Op("submitWork", id, "", "ok")
    /\ AfterSave("tasks", TRUE)
    /\ UNCHANGED <<order, now, otherStores>>

\* Tool handler review_work for a task in review: addReview, and
\* markTaskComplete when the verdict is approved.
ReviewWork(id, verdict) ==
    /\ StatusOf(id) = "in_review"
    /\ tasks' = IF verdict = "approved"
                THEN markTaskComplete(addReview(tasks, id, verdict, now), id, now)
                ELSE addReview(tasks, id, verdict, now)
    /\ lastOp' = Op("review", id, verdict, "ok")
    /\ AfterSave("tasks", TRUE)
    /\ UNCHANGED <<order, now, otherStores>>

(***************************************************************************)
(* Specification of the workflow: the developer's poll and submission and  *)
(* the reviewer's review are taken when they stay possible, and the        *)
(* reviewer approves a task that comes up for review again and again.      *)
(***************************************************************************)
NextWorkflow ==
    \/ SendWorkflowDirective
    \/ DeveloperPoll
    \/ \E id \in WorkflowIds : SubmitWork(id)
    \/ \E id \in WorkflowIds, verdict \in {"approved", "needs_revision"} :
            ReviewWork(id, verdict)

SpecWorkflow ==
    /\ Init
    /\ [][NextWorkflow]_vars
    /\ WF_tasks(DeveloperPoll)
    /\ \A id \in WorkflowIds : WF_tasks(SubmitWork(id))
    /\ \A id \in WorkflowIds : SF_tasks(ReviewWork(id, "approved"))

NextProgress ==
    \/ CreateMission
    \/ AddTaskToMission
    \/ CheckMissionProgress
    \/ SendDirective(DecomposeBatchDirectives)
    \/ AddSubmission
    \/ AddReview

SpecProgress == Init /\ [][NextProgress]_vars

(***************************************************************************)
(* Properties of the progress report                                       *)
(***************************************************************************)
\* C39: checkProgress reports the number of member ids as total, the number
\* of member tasks that are completed, in_review, pending or needs_revision,
\* and blocked, each under its own count, and percentComplete as
\* 100 * completed / total rounded, within 0..100 and 0 for no member.
C39_ProgressCounts ==
    [][\A m \in MissionIds : CheckOf(m) =>
        LET p == lastOp'.ret.progress IN
        /\ p.totalTasks = Len(missions[m].tasks)
        /\ p.completedTasks = CountMembers(missions, m, tasks, {"completed"})
        /\ p.inProgressTasks = CountMembers(missions, m, tasks, {"in_review"})
        /\ p.pendingTasks = CountMembers(missions, m, tasks, {"pending", "needs_revision"})
        /\ p.blockedTasks = CountMembers(missions, m, tasks, {"blocked"})
        /\ p.percentComplete \in 0..100
        /\ p.percentComplete = PercentComplete(p.completedTasks, p.totalTasks)
        /\ p.totalTasks = 0 => p.percentComplete = 0
      ]_vars

(***************************************************************************)
(* Properties of the check budget                                          *)
(***************************************************************************)
\* C40: in every reachable state the iteration counter of each mission is at
\* most its maxIterations.
C40_IterationsBounded ==
    \A m \in DOMAIN missions : missions[m].iterations <= missions[m].maxIterations

====
